---- MODULE Spec2Model ----
(***************************************************************************)
(* Model of src/main/common/time.c (INAV): the calendar <-> epoch          *)
(* converter, the timestamp formatter and the RTC state.                   *)
(*                                                                         *)
(* Number representation.  rtcTime_t is a signed 64-bit count of           *)
(* milliseconds; TLC's integers are 32 bits wide.  An rtcTime_t value v is *)
(* therefore held as the triple <<d, s, ms>> with                          *)
(*     v = (d * 86400 + s) * 1000 + ms,  0 <= s < 86400,  0 <= ms < 1000   *)
(* (d may be negative), which is unique for every v, so equality of        *)
(* triples is equality of the 64-bit values.  A count of seconds before it *)
(* is narrowed to int32 is the pair <<d, s>> in the same way.  Every value *)
(* the code holds in an int32_t is an ordinary integer of the model.       *)
(***************************************************************************)
EXTENDS Integers, Sequences, FiniteSets, TLC

\* ------------------------------------------------------------- constants

UNIX_REFERENCE_YEAR == 1970
MILLIS_PER_SECOND == 1000
SECONDS_PER_DAY == 86400
DAYS_PER_GROUP == 1461

\* 2^31 = Int32LimitDay * 86400 + Int32LimitSec, 2^32 = Uint32WrapDay * 86400 + Uint32WrapSec
Int32LimitDay == 24855
Int32LimitSec == 11648
Uint32WrapDay == 49710
Uint32WrapSec == 23296
Uint16Range == 65536
Uint8Range == 256

\* ------------------------------------------------------------- C arithmetic

\* a / b and a % b of C for b > 0: the quotient truncates toward zero.
CDiv(a, b) == IF a >= 0 \/ a % b = 0 THEN a \div b ELSE (a \div b) + 1

CMod(a, b) == a - b * CDiv(a, b)

\* Conversion to uint16_t and to uint8_t (the widths of dateTime_t's fields).
U16(x) == x % Uint16Range

U8(x) == x % Uint8Range

ABS(x) == IF x > 0 THEN x ELSE -x

\* The triple of the 64-bit value (d * 86400 + s) * 1000 + ms, for any s and ms.
Norm(d, s, ms) ==
    LET s2 == s + (ms \div MILLIS_PER_SECOND)
    IN  << d + (s2 \div SECONDS_PER_DAY), s2 % SECONDS_PER_DAY, ms % MILLIS_PER_SECOND >>

\* The pair of the seconds count d * 86400 + s, for any s.
NormSecs(d, s) == << d + (s \div SECONDS_PER_DAY), s % SECONDS_PER_DAY >>

\* p < 2^31 and p >= -2^31, for a pair p.
BelowInt32Max(p) == p[1] < Int32LimitDay \/ (p[1] = Int32LimitDay /\ p[2] < Int32LimitSec)

AtLeastInt32Min(p) ==
    \/ p[1] > -(Int32LimitDay + 1)
    \/ (p[1] = -(Int32LimitDay + 1) /\ p[2] >= SECONDS_PER_DAY - Int32LimitSec)

\* Narrowing a seconds count to int32_t: reduction modulo 2^32 into
\* -2^31 .. 2^31 - 1 (what the supported builds do for an out-of-range value).
RECURSIVE ToInt32(_)
ToInt32(p) ==
    IF ~BelowInt32Max(p)
    THEN ToInt32(NormSecs(p[1] - Uint32WrapDay, p[2] - Uint32WrapSec))
    ELSE IF ~AtLeastInt32Min(p)
    THEN ToInt32(NormSecs(p[1] + Uint32WrapDay, p[2] + Uint32WrapSec))
    ELSE IF p[1] < 0
    THEN (p[1] + 1) * SECONDS_PER_DAY + (p[2] - SECONDS_PER_DAY)
    ELSE p[1] * SECONDS_PER_DAY + p[2]

\* The pair of an int32 value.
SecsOf(x) == << x \div SECONDS_PER_DAY, x % SECONDS_PER_DAY >>

\* The rtcTime_t of a small number of milliseconds, t plus k milliseconds
\* (k of either sign), zero, the sign test and the order.
RtcOfMs(k) == Norm(0, 0, k)

RtcAddMs(t, k) == Norm(t[1], t[2], t[3] + k)

RtcZero == << 0, 0, 0 >>

RtcNonNeg(t) == t[1] >= 0

RtcLess(a, b) ==
    \/ a[1] < b[1]
    \/ (a[1] = b[1] /\ a[2] < b[2])
    \/ (a[1] = b[1] /\ a[2] = b[2] /\ a[3] < b[3])

\* (int32_t)(t / MILLIS_PER_SECOND): the quotient truncates toward zero.
TruncSeconds(t) ==
    ToInt32(IF t[1] < 0 /\ t[3] > 0 THEN NormSecs(t[1], t[2] + 1) ELSE << t[1], t[2] >>)

\* t % MILLIS_PER_SECOND as C computes it: negative for a negative t.
TruncMillis(t) == IF t[1] < 0 /\ t[3] > 0 THEN t[3] - MILLIS_PER_SECOND ELSE t[3]

\* ------------------------------------------------------------- time.c

daysTable ==
    << << 0, 31, 60, 91, 121, 152, 182, 213, 244, 274, 305, 335 >>,
       << 366, 397, 425, 456, 486, 517, 547, 578, 609, 639, 670, 700 >>,
       << 731, 762, 790, 821, 851, 882, 912, 943, 974, 1004, 1035, 1065 >>,
       << 1096, 1127, 1155, 1186, 1216, 1247, 1277, 1308, 1339, 1369, 1400, 1430 >> >>

\* days[year][month], both indices 0-based as in the code.
days(year, month) == daysTable[year + 1][month + 1]

rtcTimeMake(secs, millis) ==
    LET p == SecsOf(secs) IN Norm(p[1], p[2], millis)

rtcTimeGetSeconds(t) == TruncSeconds(t)

rtcTimeGetMillis(t) == U16(TruncMillis(t))

\* The unsigned value of line 64 before it is narrowed, as a pair that is
\* congruent to it modulo 2^32.  The code computes in unsigned int: a field
\* that is negative here (a year before 1970, a day of 0) is there the same
\* number plus 2^32, its quotient by 4 is this floor quotient plus 2^30 and
\* its remainder by 4 is this remainder; 2^30 * 1461 * 86400 and 2^32 * 86400
\* are multiples of 2^32, so the narrowed results agree.
UnixTimeUnsigned(dt) ==
    LET second == dt.seconds
        minute == dt.minutes
        hour   == dt.hours
        day    == dt.day - 1
        month  == dt.month - 1
        year   == dt.year - UNIX_REFERENCE_YEAR
    IN  NormSecs((year \div 4) * DAYS_PER_GROUP + days(year % 4, month) + day,
                 (hour * 60 + minute) * 60 + second)

dateTimeToRtcTime(dt) == rtcTimeMake(ToInt32(UnixTimeUnsigned(dt)), dt.millis)

\* The year row rtcTimeToDateTime's first loop stops at.
RECURSIVE YearScan(_, _)
YearScan(unixTime, year) ==
    IF year > 0 /\ ~(unixTime >= days(year, 0)) THEN YearScan(unixTime, year - 1) ELSE year

\* The second loop with > in place of >= (the first day of a month is missed).
RECURSIVE MonthScan_Strict(_, _, _)
MonthScan_Strict(unixTime, year, month) ==
    IF month > 0 /\ ~(unixTime > days(year, month))
    THEN MonthScan_Strict(unixTime, year, month - 1)
    ELSE month

\* The month column its second loop stops at.
RECURSIVE MonthScan(_, _, _)
MonthScan(unixTime, year, month) ==
    IF month > 0 /\ ~(unixTime >= days(year, month))
    THEN MonthScan(unixTime, year, month - 1)
    ELSE month

rtcTimeToDateTime(t) ==
    LET u0     == TruncSeconds(t)
        u1     == CDiv(u0, 60)
        u2     == CDiv(u1, 60)
        u3     == CDiv(u2, 24)
        years  == CDiv(u3, DAYS_PER_GROUP) * 4
        u4     == CMod(u3, DAYS_PER_GROUP)
        year   == YearScan(u4, 3)
        month  == MonthScan(u4, year, 11)
    IN  [ year    |-> U16(years + year + UNIX_REFERENCE_YEAR),
          month   |-> U8(month + 1),
          day     |-> U8(u4 - days(year, month) + 1),
          hours   |-> U8(CMod(u2, 24)),
          minutes |-> U8(CMod(u1, 60)),
          seconds |-> U8(CMod(u0, 60)),
          millis  |-> U16(TruncMillis(t)) ]

\* rtcTimeGetSeconds(&utcTime) + offset * 60 of line 114, an addition of two
\* ints.  When the sum leaves the int range the behaviour is undefined; ub
\* names the outcome the build produces: the sum wrapped, or the sum
\* saturated at the nearest end of the range.
LocalSeconds(utcSeconds, offset, ub) ==
    LET p   == SecsOf(utcSeconds)
        sum == NormSecs(p[1], p[2] + offset * 60)
    IN  IF (BelowInt32Max(sum) /\ AtLeastInt32Min(sum)) \/ ub = "wrap"
        THEN ToInt32(sum)
        ELSE IF offset > 0
        THEN ToInt32(<< Int32LimitDay, Int32LimitSec - 1 >>)
        ELSE ToInt32(<< -(Int32LimitDay + 1), SECONDS_PER_DAY - Int32LimitSec >>)

\* What dateTimeFormat hands to tfp_sprintf: the calendar fields, the sign
\* character and the two numbers of the suffix.
dateTimeFormat(dateTime, offset, ub) ==
    LET tz_hours   == IF offset # 0 THEN CDiv(offset, 60) ELSE 0
        tz_minutes == IF offset # 0 THEN ABS(CMod(offset, 60)) ELSE 0
        utcTime    == dateTimeToRtcTime(dateTime)
        localTime  == rtcTimeMake(LocalSeconds(rtcTimeGetSeconds(utcTime), offset, ub),
                                  rtcTimeGetMillis(utcTime))
    IN  [ fields |-> IF offset # 0 THEN rtcTimeToDateTime(localTime) ELSE dateTime,
          sign   |-> IF tz_hours >= 0 THEN "+" ELSE "-",
          hh     |-> ABS(tz_hours),
          mm     |-> tz_minutes ]

dateTimeFormatUTC(dt) == dateTimeFormat(dt, 0, "wrap")

dateTimeFormatLocal(dt, tz_offset, ub) == dateTimeFormat(dt, tz_offset, ub)

\* The value rtcGetDateTime stores when no time is established.
SentinelDateTime ==
    [ year |-> 0, month |-> 1, day |-> 1, hours |-> 0, minutes |-> 0, seconds |-> 0,
      millis |-> 0 ]

\* rtcHasTime with the test left out.
rtcHasTime_Always(startedV) == TRUE

\* rtcHasTime, reading the stored offset startedV.
rtcHasTime(startedV) == startedV # RtcZero

\* rtcGet with millis() = m: whether it succeeds and what it stores in *t
\* (nothing on failure).
rtcGet(startedV, m) ==
    IF ~rtcHasTime(startedV)
    THEN [ ok |-> FALSE, t |-> << >> ]
    ELSE [ ok |-> TRUE, t |-> RtcAddMs(startedV, m) ]

\* rtcSet that stores the epoch itself, the uptime not subtracted.
rtcSet_NoUptime(t, m) == t

\* The offset rtcSet stores, with millis() = m.
rtcSet(t, m) == RtcAddMs(t, -m)

rtcGetDateTime(startedV, m) ==
    LET r == rtcGet(startedV, m)
    IN  IF r.ok
        THEN [ ok |-> TRUE, t |-> r.t, dt |-> rtcTimeToDateTime(r.t) ]
        ELSE [ ok |-> FALSE, t |-> << >>, dt |-> SentinelDateTime ]

\* The offset rtcSetDateTime stores.
rtcSetDateTime(dt, m) == rtcSet(dateTimeToRtcTime(dt), m)

\* ------------------------------------------------------------- state

VARIABLES
    started,      \* the stored offset (static rtcTime_t started)
    now,          \* what millis() returns
    everSet,      \* history: rtcSet has been called
    lastSet,      \* history: the epoch and the uptime of the most recent rtcSet
    ret,          \* the most recent call and what it returned
    stage,        \* converter: which conversions have been applied
    dtIn,         \* converter: the calendar input
    tIn,          \* converter: the epoch input
    dtOut,        \* converter: the calendar result
    tOut,         \* converter: the epoch result
    tz_offset,    \* timeConfig()->tz_offset as the formatter read it
    fmt,          \* formatter: the arguments of tfp_sprintf
    setter,       \* interleaving: the context running rtcSet
    getter,       \* interleaving: the context running rtcGet
    setsStarted   \* history: the <<epoch, uptime>> of every rtcSet begun

rtcVars == << started, now, everSet, lastSet, ret >>

convVars == << stage, dtIn, tIn, dtOut, tOut, tz_offset, fmt >>

concVars == << setter, getter, setsStarted >>

vars == << rtcVars, convVars, concVars >>

NoDateTime == SentinelDateTime

NoRet == [ op |-> "none", ok |-> FALSE, t |-> << >>, dt |-> NoDateTime,
           startedBefore |-> RtcZero, at |-> 0 ]

NoFmt == [ fields |-> NoDateTime, sign |-> "+", hh |-> 0, mm |-> 0 ]

RtcIdle ==
    /\ started = RtcZero
    /\ now = 0
    /\ everSet = FALSE
    /\ lastSet = [ epoch |-> RtcZero, uptime |-> 0 ]
    /\ ret = NoRet

ConvIdle ==
    /\ stage = "off"
    /\ dtIn = NoDateTime
    /\ tIn = RtcZero
    /\ dtOut = NoDateTime
    /\ tOut = RtcZero
    /\ tz_offset = 0
    /\ fmt = NoFmt

ConcIdle ==
    /\ setter = [ pc |-> "idle", epoch |-> 0, uptime |-> 0 ]
    /\ getter = [ pc |-> "idle", seen |-> RtcZero, off |-> RtcZero, uptime |-> 0,
                  hasOff |-> FALSE, hasUp |-> FALSE ]
    /\ setsStarted = {}

\* ------------------------------------------------------------- RTC state

\* Bounds of the RTC model: the uptime counter and the small epochs set.
MaxUptime == 3
MaxEpochMs == 3

\* The epochs handed to rtcSet: every small millisecond count (those the
\* uptime counter can equal among them) and one present-day value.
SetEpochs == { RtcOfMs(k) : k \in 0..MaxEpochMs } \cup { << 19727, 47222, 123 >> }

\* The calendars handed to rtcSetDateTime.
SetDateTimes ==
    { [ year |-> 1970, month |-> 1, day |-> 1, hours |-> 0, minutes |-> 0, seconds |-> 0,
        millis |-> 2 ],
      [ year |-> 2024, month |-> 1, day |-> 5, hours |-> 13, minutes |-> 7, seconds |-> 2,
        millis |-> 123 ] }

\* The uptime source advances.
Tick ==
    /\ now < MaxUptime
    /\ now' = now + 1
    /\ UNCHANGED << started, everSet, lastSet, ret, convVars, concVars >>

RtcHasTimeCall ==
    /\ ret' = [ NoRet EXCEPT !.op = "hasTime", !.ok = rtcHasTime(started),
                             !.startedBefore = started, !.at = now ]
    /\ UNCHANGED << started, now, everSet, lastSet, convVars, concVars >>

RtcSetCall ==
    \E t \in SetEpochs :
        /\ started' = rtcSet(t, now)
        /\ everSet' = TRUE
        /\ lastSet' = [ epoch |-> t, uptime |-> now ]
        /\ ret' = [ NoRet EXCEPT !.op = "set", !.ok = TRUE, !.startedBefore = started,
                                 !.at = now ]
        /\ UNCHANGED << now, convVars, concVars >>

RtcSetDateTimeCall ==
    \E dt \in SetDateTimes :
        /\ started' = rtcSetDateTime(dt, now)
        /\ everSet' = TRUE
        /\ lastSet' = [ epoch |-> dateTimeToRtcTime(dt), uptime |-> now ]
        /\ ret' = [ NoRet EXCEPT !.op = "setDateTime", !.ok = TRUE,
                                 !.startedBefore = started, !.at = now ]
        /\ UNCHANGED << now, convVars, concVars >>

RtcGetCall ==
    LET r == rtcGet(started, now)
    IN  /\ ret' = [ NoRet EXCEPT !.op = "get", !.ok = r.ok, !.t = r.t,
                                 !.startedBefore = started, !.at = now ]
        /\ UNCHANGED << started, now, everSet, lastSet, convVars, concVars >>

RtcGetDateTimeCall ==
    LET r == rtcGetDateTime(started, now)
    IN  /\ ret' = [ NoRet EXCEPT !.op = "getDateTime", !.ok = r.ok, !.t = r.t, !.dt = r.dt,
                                 !.startedBefore = started, !.at = now ]
        /\ UNCHANGED << started, now, everSet, lastSet, convVars, concVars >>

InitRtc == RtcIdle /\ ConvIdle /\ ConcIdle

NextRtc ==
    \/ Tick
    \/ RtcHasTimeCall
    \/ RtcSetCall
    \/ RtcSetDateTimeCall
    \/ RtcGetCall
    \/ RtcGetDateTimeCall

SpecRtc == InitRtc /\ [][NextRtc]_vars

\* C1: hasTime() is false until the first set and true after every set, for
\* every epoch and uptime, and never false again: in every state hasTime()
\* equals "a set has occurred".
C1_HasTimeIffSet == rtcHasTime(started) = everSet

\* C2: a get() after the most recent set(E) at uptime u0 succeeds and
\* returns exactly E + (u1 - u0), u1 the uptime at the get.
C2_GetAfterSet ==
    (ret.op = "get" /\ everSet) =>
        /\ ret.ok
        /\ ret.t = RtcAddMs(lastSet.epoch, ret.at - lastSet.uptime)

\* C6: while no set has occurred, get() fails and stores no epoch,
\* getCalendar() returns false with the sentinel calendar, and the stored
\* offset is what it was before the call.
C6_UnsetFails ==
    (~everSet /\ ret.op \in { "get", "getDateTime" }) =>
        /\ ~ret.ok
        /\ ret.t = << >>
        /\ ret.op = "getDateTime" =>
               ret.dt = [ year |-> 0, month |-> 1, day |-> 1, hours |-> 0, minutes |-> 0,
                          seconds |-> 0, millis |-> 0 ]
        /\ started = ret.startedBefore
        /\ started = RtcZero

C6_Witness == ~everSet /\ ret.op = "getDateTime" /\ ret.at > 0 /\ ~ret.ok

\* ------------------------------------------------------------- converter

\* Bounds of the converter model: the calendar years from 1970 on, and the
\* days past the last day an int32 count of seconds reaches.
YearsModelled == 71
ExtraEpochDays == 2

DateTime(y, mo, d, h, mi, sec, ms) ==
    [ year |-> y, month |-> mo, day |-> d, hours |-> h, minutes |-> mi, seconds |-> sec,
      millis |-> ms ]

\* The Gregorian calendar, independently of the table.
IsLeapYear(y) == y % 4 = 0 /\ (y % 100 # 0 \/ y % 400 = 0)

GregorianDaysInMonth(y, m) ==
    IF m = 2 THEN (IF IsLeapYear(y) THEN 29 ELSE 28)
    ELSE IF m \in { 4, 6, 9, 11 } THEN 30 ELSE 31

GregorianMonthStart == << 0, 31, 59, 90, 120, 151, 181, 212, 243, 273, 304, 334 >>

\* Days from 1970-01-01 to the given date, by the Gregorian leap rule.
GregorianDayCount(y, m, d) ==
    365 * (y - 1970) + ((y - 1969) \div 4) - ((y - 1901) \div 100) + ((y - 1601) \div 400)
        + GregorianMonthStart[m] + (IF m > 2 /\ IsLeapYear(y) THEN 1 ELSE 0) + (d - 1)

\* Milliseconds from 1970-01-01T00:00:00.000 to dt, by the Gregorian count.
GregorianEpoch(dt) ==
    Norm(GregorianDayCount(dt.year, dt.month, dt.day),
         (dt.hours * 60 + dt.minutes) * 60 + dt.seconds, dt.millis)

ValidGregorian(dt) ==
    /\ dt.year >= 1970
    /\ dt.month \in 1..12
    /\ dt.day \in 1..GregorianDaysInMonth(dt.year, dt.month)
    /\ dt.hours \in 0..23 /\ dt.minutes \in 0..59 /\ dt.seconds \in 0..59
    /\ dt.millis \in 0..999

\* The length the table gives month m (1-12) of year y.
TableDaysInMonth(y, m) ==
    LET r == (y - UNIX_REFERENCE_YEAR) % 4
    IN  IF m < 12 THEN days(r, m) - days(r, m - 1)
        ELSE IF r < 3 THEN days(r + 1, 0) - days(r, 11)
        ELSE DAYS_PER_GROUP - days(r, 11)

IsTableLeapDay(dt) ==
    dt.month = 2 /\ dt.day = 29 /\ 29 \in 1..TableDaysInMonth(dt.year, 2)

\* The seconds count of dt, and of dt one day on, fits an int32_t.
FitsInt32(dt) == BelowInt32Max(UnixTimeUnsigned(dt))

FitsInt32NextDay(dt) ==
    LET p == UnixTimeUnsigned(dt) IN BelowInt32Max(<< p[1] + 1, p[2] >>)

Years == UNIX_REFERENCE_YEAR .. (UNIX_REFERENCE_YEAR + YearsModelled - 1)

MaxOf(a, b) == IF a > b THEN a ELSE b

\* Every date of the modelled years that the Gregorian calendar or the
\* table has, at midnight.
MidnightInputs ==
    { dt \in [ year : Years, month : 1..12, day : 1..31, hours : { 0 }, minutes : { 0 },
               seconds : { 0 }, millis : { 0 } ] :
        dt.day <= MaxOf(GregorianDaysInMonth(dt.year, dt.month),
                        TableDaysInMonth(dt.year, dt.month)) }

TimeSamples == { << 0, 0, 0 >>, << 3, 14, 7 >>, << 3, 14, 8 >>, << 12, 0, 0 >>, << 23, 59, 59 >> }

MillisSamples == { 0, 500, 999 }

\* Dates around the reference instant, the leap days and the int32 limit,
\* at several times of day.
DetailInputs ==
    { dt \in [ year : { 1970, 1972, 1973, 1974, 2037, 2038, 2040 } \cap Years,
               month : { 1, 2, 3, 12 }, day : { 1, 19, 28, 29, 31 },
               hours : { x[1] : x \in TimeSamples }, minutes : { x[2] : x \in TimeSamples },
               seconds : { x[3] : x \in TimeSamples }, millis : MillisSamples ] :
        /\ << dt.hours, dt.minutes, dt.seconds >> \in TimeSamples
        /\ dt.day <= MaxOf(GregorianDaysInMonth(dt.year, dt.month),
                           TableDaysInMonth(dt.year, dt.month)) }

CalInputs == MidnightInputs \cup DetailInputs

\* Epochs >= 0: every midnight up to the int32 limit and past it, and around
\* the limits 2^31 and 2^32 seconds at several times of day.
EpochInputs ==
    { << d, 0, 0 >> : d \in 0..(Int32LimitDay + ExtraEpochDays) } \cup
    { << d, sec, ms >> :
        d \in { 0, 59, 789, 790, Int32LimitDay - 1, Int32LimitDay, Int32LimitDay + 1,
                Uint32WrapDay },
        sec \in { 0, 1, Int32LimitSec - 1, Int32LimitSec, Uint32WrapSec, SECONDS_PER_DAY - 1 },
        ms \in MillisSamples }

\* The values of the configured offset, in minutes.
TzOffsets == { 0, 330, -300, -30, 840, -720 }

InitConv ==
    /\ RtcIdle /\ ConcIdle
    /\ dtOut = NoDateTime /\ tOut = RtcZero /\ tz_offset = 0 /\ fmt = NoFmt
    /\ \/ stage = "cal" /\ dtIn \in CalInputs /\ tIn = RtcZero
       \/ stage = "epoch" /\ tIn \in EpochInputs /\ dtIn = NoDateTime

CalToEpoch ==
    /\ stage = "cal"
    /\ tOut' = dateTimeToRtcTime(dtIn)
    /\ stage' = "cal_epoch"
    /\ UNCHANGED << dtIn, tIn, dtOut, tz_offset, fmt, rtcVars, concVars >>

CalToEpochToCal ==
    /\ stage = "cal_epoch"
    /\ dtOut' = rtcTimeToDateTime(tOut)
    /\ stage' = "cal_epoch_cal"
    /\ UNCHANGED << dtIn, tIn, tOut, tz_offset, fmt, rtcVars, concVars >>

\* The calendar of the epoch one day (86400000 ms) on.
CalToEpochNextDay ==
    /\ stage = "cal_epoch"
    /\ dtOut' = rtcTimeToDateTime(Norm(tOut[1] + 1, tOut[2], tOut[3]))
    /\ stage' = "cal_nextday"
    /\ UNCHANGED << dtIn, tIn, tOut, tz_offset, fmt, rtcVars, concVars >>

EpochToCal ==
    /\ stage = "epoch"
    /\ dtOut' = rtcTimeToDateTime(tIn)
    /\ stage' = "epoch_cal"
    /\ UNCHANGED << dtIn, tIn, tOut, tz_offset, fmt, rtcVars, concVars >>

EpochToCalToEpoch ==
    /\ stage = "epoch_cal"
    /\ tOut' = dateTimeToRtcTime(dtOut)
    /\ stage' = "epoch_cal_epoch"
    /\ UNCHANGED << dtIn, tIn, dtOut, tz_offset, fmt, rtcVars, concVars >>

FormatUTC ==
    /\ stage = "cal"
    /\ fmt' = dateTimeFormatUTC(dtIn)
    /\ stage' = "fmt_utc"
    /\ UNCHANGED << dtIn, tIn, dtOut, tOut, tz_offset, rtcVars, concVars >>

FormatLocal ==
    /\ stage = "cal"
    /\ \E tz \in TzOffsets, ub \in { "wrap", "saturate" } :
        /\ tz_offset' = tz
        /\ fmt' = dateTimeFormatLocal(dtIn, tz, ub)
    /\ stage' = "fmt_local"
    /\ UNCHANGED << dtIn, tIn, dtOut, tOut, rtcVars, concVars >>

NextConv ==
    \/ CalToEpoch
    \/ CalToEpochToCal
    \/ CalToEpochNextDay
    \/ EpochToCal
    \/ EpochToCalToEpoch
    \/ FormatUTC
    \/ FormatLocal

SpecConv == InitConv /\ [][NextConv]_vars

\* C3: for every epoch E >= 0 of the 64-bit type, converting E to a calendar
\* and back gives E.
C3_EpochRoundTrip == (stage = "epoch_cal_epoch" /\ RtcNonNeg(tIn)) => tOut = tIn

\* C4: for every valid Gregorian calendar value with year >= 1970 (29
\* February of real leap years included), converting it to an epoch and back
\* gives the same seven fields.
C4_CalendarRoundTrip == (stage = "cal_epoch_cal" /\ ValidGregorian(dtIn)) => dtOut = dtIn

\* C5: for every valid Gregorian date-time from 1970-01-01 to the end of
\* 2037 the epoch is the number of milliseconds since 1970-01-01T00:00:00.000
\* by the Gregorian day count; 1970-01-01T00:00:00.000 gives 0.
C5_TrueUnixEpoch ==
    (stage = "cal_epoch" /\ ValidGregorian(dtIn) /\ dtIn.year <= 2037) =>
        tOut = GregorianEpoch(dtIn)

\* The fields in calendar order.
CalBefore(a, b) ==
    LET ka == << a.year, a.month, a.day, a.hours, a.minutes, a.seconds, a.millis >>
        kb == << b.year, b.month, b.day, b.hours, b.minutes, b.seconds, b.millis >>
    IN  \E i \in 1..7 : ka[i] < kb[i] /\ \A j \in 1..(i - 1) : ka[j] = kb[j]

OrderReferences ==
    { DateTime(1970, 1, 1, 0, 0, 0, 0), DateTime(2037, 12, 31, 23, 59, 59, 999) }

\* C9: for every calendar input with year - 1970 in 0..99 and in-range
\* fields the seconds count fits an int32 without wrapping, so the epoch is
\* non-negative and increases with the calendar order of the inputs.
C9_NoWraparound ==
    (stage = "cal_epoch" /\ dtIn.year - UNIX_REFERENCE_YEAR \in 0..99) =>
        /\ FitsInt32(dtIn)
        /\ RtcNonNeg(tOut)
        /\ \A ref \in OrderReferences :
               CalBefore(ref, dtIn) => RtcLess(dateTimeToRtcTime(ref), tOut)

\* C7: formatLocal with tz_offset = 0 renders what formatUTC renders; with
\* tz_offset # 0 the fields are those of the epoch of the input plus
\* tz_offset * 60 * 1000 ms with the millisecond field preserved, the suffix
\* is |tz_offset / 60|, |tz_offset % 60| (truncating division) and the sign
\* is + when tz_offset / 60 >= 0, otherwise -; 330 on 1970-01-01T00:00:00.000
\* renders 1970-01-01T05:30:00.000+05:30 and -300 renders the suffix -05:00.
C7_FormatLocal ==
    stage = "fmt_local" =>
        /\ tz_offset = 0 =>
               fmt = [ fields |-> dtIn, sign |-> "+", hh |-> 0, mm |-> 0 ]
        /\ tz_offset # 0 =>
               LET utc == dateTimeToRtcTime(dtIn)
                   shifted == Norm(utc[1], utc[2] + tz_offset * 60, utc[3])
               IN  /\ fmt.fields = rtcTimeToDateTime(shifted)
                   /\ fmt.fields.millis = dtIn.millis
                   /\ fmt.hh = ABS(CDiv(tz_offset, 60))
                   /\ fmt.mm = ABS(CMod(tz_offset, 60))
                   /\ fmt.sign = IF CDiv(tz_offset, 60) >= 0 THEN "+" ELSE "-"
        /\ (tz_offset = 330 /\ dtIn = DateTime(1970, 1, 1, 0, 0, 0, 0)) =>
               fmt = [ fields |-> DateTime(1970, 1, 1, 5, 30, 0, 0), sign |-> "+",
                       hh |-> 5, mm |-> 30 ]
        /\ tz_offset = -300 => (fmt.sign = "-" /\ fmt.hh = 5 /\ fmt.mm = 0)

MaxSets == 2

\* rtcSet, line 165, first half: *t and millis() are read.
SetReadUptime ==
    /\ setter.pc = "idle"
    /\ Cardinality(setsStarted) < MaxSets
    /\ \E e \in 0..MaxEpochMs :
        /\ setter' = [ pc |-> "write", epoch |-> e, uptime |-> now ]
        /\ setsStarted' = setsStarted \cup { << e, now >> }
    /\ UNCHANGED << started, now, everSet, lastSet, ret, getter, convVars >>

\* rtcSet, line 165, second half: the difference is written to started.
SetWrite ==
    /\ setter.pc = "write"
    /\ started' = rtcSet(RtcOfMs(setter.epoch), setter.uptime)
    /\ setter' = [ setter EXCEPT !.pc = "idle" ]
    /\ UNCHANGED << now, everSet, lastSet, ret, getter, setsStarted, convVars >>

\* rtcGet, line 156: started is read for rtcHasTime; false is returned when
\* it is zero.
GetCheck ==
    /\ getter.pc = "idle"
    /\ IF rtcHasTime(started)
       THEN /\ getter' = [ pc |-> "sum", seen |-> started, off |-> RtcZero, uptime |-> 0,
                           hasOff |-> FALSE, hasUp |-> FALSE ]
            /\ ret' = ret
       ELSE /\ getter' = [ getter EXCEPT !.seen = started ]
            /\ ret' = [ NoRet EXCEPT !.op = "get", !.ok = FALSE, !.startedBefore = started,
                                     !.at = now ]
    /\ UNCHANGED << started, now, everSet, lastSet, setter, setsStarted, convVars >>

\* rtcGet, line 159: the operands of started + millis() are read, in either
\* order (the order of evaluation is unspecified).
GetReadOffset ==
    /\ getter.pc = "sum" /\ ~getter.hasOff
    /\ getter' = [ getter EXCEPT !.off = started, !.hasOff = TRUE ]
    /\ UNCHANGED << started, now, everSet, lastSet, ret, setter, setsStarted, convVars >>

GetReadUptime ==
    /\ getter.pc = "sum" /\ ~getter.hasUp
    /\ getter' = [ getter EXCEPT !.uptime = now, !.hasUp = TRUE ]
    /\ UNCHANGED << started, now, everSet, lastSet, ret, setter, setsStarted, convVars >>

\* rtcGet, lines 159-160: the sum is stored in *t and true is returned.
GetReturn ==
    /\ getter.pc = "sum" /\ getter.hasOff /\ getter.hasUp
    /\ ret' = [ NoRet EXCEPT !.op = "get", !.ok = TRUE,
                             !.t = RtcAddMs(getter.off, getter.uptime),
                             !.startedBefore = getter.seen, !.at = getter.uptime ]
    /\ getter' = [ getter EXCEPT !.pc = "idle" ]
    /\ UNCHANGED << started, now, everSet, lastSet, setter, setsStarted, convVars >>

InitConc == RtcIdle /\ ConvIdle /\ ConcIdle

NextConc ==
    \/ Tick
    \/ SetReadUptime
    \/ SetWrite
    \/ GetCheck
    \/ GetReadOffset
    \/ GetReadUptime
    \/ GetReturn

SpecConc == InitConc /\ [][NextConc]_vars

\* C10: with atomic reads and writes of the offset, in every interleaving a
\* get() that reports success returns F + (u_get - u_set) for a set(F) already
\* begun, u_set and u_get the uptimes that set and get read; it never returns
\* a value built from no set.
C10_GetFromSomeSet ==
    (ret.op = "get" /\ ret.ok) =>
        \E p \in setsStarted : ret.t = RtcAddMs(RtcOfMs(p[1]), ret.at - p[2])

\* A get() whose has-time check read one set's offset and whose sum read
\* another's, that one being zero.
C10_Witness ==
    /\ ret.op = "get" /\ ret.ok
    /\ getter.pc = "idle"
    /\ getter.seen # getter.off
    /\ getter.off = RtcZero
    /\ ret.at > 0

====
